---- MODULE Spec2Model ----
(***************************************************************************)
(* Token-bucket rate limiter (rate_limiter.py): TokenBucket and the        *)
(* RateLimiter registry, with the threads that call them.                  *)
(*                                                                         *)
(* Numbers.  The code computes in Decimal.  The model keeps every Decimal  *)
(* as an integer count of its smallest unit:                               *)
(*   time     in ticks of 10^-7 s (str(time.time()) carries 7 decimals),   *)
(*   rate     in tenths of a token per second,                             *)
(*   balances in micro-tokens (the quantum of quantize('0.000001')).       *)
(***************************************************************************)
EXTENDS Integers, FiniteSets, Sequences, TLC

\* ---------------------------------------------------------------- units
TokScale == 1000000
TickScale == 10000000
RateScale == 10

\* ---------------------------------------------------------------- bounds
NThreads == 3
MaxAdvances == 2
MaxCalls == 6
MaxOps == 4

Threads == 1..NThreads

\* The registry's callers: two threads, enough for every pair of calls to race.
Clients == {1, 2}
Names == {"a", "b"}

\* Free: the state of a threading.Lock() nobody holds.
Free == 0

\* Elapsed times the clock can jump by between two steps, in ticks.
Delays == {1, 4999999, 5000000, 33333334, 100000000}

\* (rate, capacity) pairs handed to TokenBucket(): 2.0/5, 1.0/3, 0.3/1.
Configs ==
    { [requests_per_second |-> 20, burst_size |-> 5],
      [requests_per_second |-> 10, burst_size |-> 3],
      [requests_per_second |-> 3,  burst_size |-> 1] }

\* What the registry's callers see and pass: clock steps, configs, token counts.
RegDelays == {10000000}

RegConfigs ==
    { [requests_per_second |-> 10, burst_size |-> 3],
      [requests_per_second |-> 3,  burst_size |-> 1] }

RegAmounts == {0, 1}

\* Token counts a caller asks for.
Amounts == {0, 1, 2}

VARIABLES
    now,        \* time.time(), in ticks
    buckets,    \* RateLimiter._buckets: name -> TokenBucket (fields and lock)
    regLock,    \* RateLimiter._lock: the thread holding it, or Free
    pc,         \* where each thread is
    op,         \* the call each thread is in
    ret,        \* what each thread's last call returned or raised
    loc,        \* per thread: what its _add_tokens read and computed
    hist,       \* per name: history of the bucket registered there
    lastCall,   \* the consume call that completed last
    made,       \* the last TokenBucket(rate, capacity) call and whether it raised
    advances,   \* clock jumps so far
    ncalls,     \* calls started so far
    exchange,   \* BinanceExchange: calls issued to self.exchange, each task's place
    middleware, \* APIMiddleware: rate_limits, and what its calls were and did
    series      \* the refused calls since the last granted one, and where they began

vars ==
    <<now, buckets, regLock, pc, op, ret, loc, hist, lastCall, made, advances, ncalls,
      exchange, middleware, series>>

\* ---------------------------------------------------------------- arithmetic
Min(a, b) == IF a <= b THEN a ELSE b

Abs(a) == IF a >= 0 THEN a ELSE -a

\* Decimal.quantize(Decimal('0.000001'), rounding=ROUND_DOWN) of elapsed * rate:
\* truncation toward zero of elapsed * rate / Quantum micro-tokens.  With
\* |elapsed| = q * Quantum + r the quotient is q * rate + (r * rate) \div Quantum,
\* which is the same number and keeps every intermediate below 2^31.
Quantum == (TickScale * RateScale) \div TokScale

QuantizeUp(elapsed, rate) ==
    LET a == Abs(elapsed)
        m == (a \div Quantum) * rate + (((a % Quantum) * rate) + Quantum - 1) \div Quantum
    IN  IF elapsed >= 0 THEN m ELSE -m

QuantizeNoRate(elapsed, rate) ==
    LET a == Abs(elapsed)
        m == (a \div Quantum) * RateScale + ((a % Quantum) * RateScale) \div Quantum
    IN  IF elapsed >= 0 THEN m ELSE -m

Quantize(elapsed, rate) ==
    LET a == Abs(elapsed)
        m == (a \div Quantum) * rate + ((a % Quantum) * rate) \div Quantum
    IN  IF elapsed >= 0 THEN m ELSE -m

\* TokenBucket.__init__: the checks, then the fields of a full bucket.
CtorOK(rate, capacity) == rate > 0 /\ capacity > 0 /\ capacity * RateScale >= rate

\* What a TokenBucket(rate, capacity) call did.
Made(rate, capacity) ==
    [rate |-> rate, capacity |-> capacity, raised |-> ~CtorOK(rate, capacity)]

NewBucketEmpty(rate, capacity) ==
    [ rate |-> rate,
      capacity |-> capacity * TokScale,
      tokens |-> 0,
      last_update |-> now,
      lock |-> Free ]

NewBucket(rate, capacity) ==
    [ rate |-> rate,
      capacity |-> capacity * TokScale,
      tokens |-> capacity * TokScale,
      last_update |-> now,
      lock |-> Free ]

\* TokenBucket._add_tokens on bucket b at the time `at`.
RefilledReset(b, at) == Min(b.capacity, Quantize(at - b.last_update, b.rate))

RefilledNoCap(b, at) == b.tokens + Quantize(at - b.last_update, b.rate)

Refilled(b, at) == Min(b.capacity, b.tokens + Quantize(at - b.last_update, b.rate))

\* ---------------------------------------------------------------- history
NoHist ==
    [ created |-> 0, granted |-> 0, fresh |-> TRUE, wait |-> 0, afterFail |-> FALSE,
      base |-> 0, calls |-> 0, ok |-> 0, pure |-> TRUE, lastRes |-> "none",
      done |-> 0, succ |-> 0, failed |-> 0 ]

NewHist == [NoHist EXCEPT !.created = now]

NoCall ==
    [ name |-> "none", thread |-> Free, n |-> 0, tokens0 |-> 0, elapsed |-> 0,
      at |-> 0, refilled |-> 0, tokens1 |-> 0, result |-> "none",
      rate |-> 0, capacity |-> 0 ]

NoOp == [kind |-> "none", name |-> "none", n |-> 0]

NoLoc == [tokens0 |-> 0, elapsed |-> 0, at |-> 0, refilled |-> 0]

\* The history of bucket `name` after a consume(n) call that read elapsed time
\* l.elapsed and returned res.  A run is a maximal series of calls that all read
\* the same time: it starts at construction or at a call that saw time pass.
HistAfter(h, l, n, res) ==
    LET good == IF res = "True" THEN 1 ELSE 0
        cont == l.elapsed = 0
    IN  [ h EXCEPT
            !.granted = @ + good * n,
            !.fresh = IF cont THEN @ ELSE FALSE,
            !.wait = IF cont THEN @ ELSE l.elapsed,
            !.afterFail = IF cont THEN @ ELSE h.lastRes = "False",
            !.base = IF cont THEN @ ELSE l.tokens0,
            !.calls = IF cont THEN @ + 1 ELSE 1,
            !.ok = IF cont THEN @ + good ELSE good,
            !.pure = IF cont THEN @ /\ n = 1 ELSE n = 1,
            !.lastRes = res,
            !.done = @ + 1,
            !.succ = @ + good,
            !.failed = @ + (1 - good) ]

CallRecord(t, b, res) ==
    [ name |-> op[t].name, thread |-> t, n |-> op[t].n,
      tokens0 |-> loc[t].tokens0, elapsed |-> loc[t].elapsed, at |-> loc[t].at,
      refilled |-> loc[t].refilled, tokens1 |-> b.tokens, result |-> res,
      rate |-> b.rate, capacity |-> b.capacity ]

\* No BinanceExchange request under way or made.
NoExchange == [requests |-> 0, task |-> [t \in Threads |-> "none"]]

\* No refused call yet: the balance and the time the next series starts from.
NoSeries == [begun |-> FALSE, base |-> 0, since |-> 0, k |-> 0]

\* APIMiddleware(): no key in rate_limits, no call made.  `accepted` keeps every
\* accepted call's timestamp per key, `last` the latest rate_limit call.
MwKeys == {"k1", "k2"}

NoRateLimit ==
    [key |-> "none", max_requests |-> 0, window_seconds |-> 0, at |-> 0,
     recent |-> 0, result |-> "none", recorded |-> FALSE]

NoMiddleware ==
    [ rate_limits |-> [k \in {} |-> <<>>],
      accepted |-> [k \in MwKeys |-> <<>>],
      last |-> NoRateLimit ]

\* ---------------------------------------------------------------- TokenBucket.consume
\* consume(tokens) called directly on the bucket held under `name`:
\* the argument check, before the lock.
CallConsume(t, name, n) ==
    /\ pc[t] = "idle"
    /\ ncalls < MaxCalls
    /\ name \in DOMAIN buckets
    /\ ncalls' = ncalls + 1
    /\ op' = [op EXCEPT ![t] = [kind |-> "consume", name |-> name, n |-> n]]
    /\ IF n <= 0
         THEN /\ ret' = [ret EXCEPT ![t] = "ValueError"]
              /\ pc' = pc
         ELSE /\ ret' = [ret EXCEPT ![t] = "none"]
              /\ pc' = [pc EXCEPT ![t] = "c_lock"]
    /\ UNCHANGED <<now, buckets, regLock, loc, hist, lastCall, made, advances, exchange, middleware,
                   series>>

\* `with self._lock:` of consume: taken only when nobody holds it.
LockIgnored(b) == TRUE

LockFree(b) == b.lock = Free

ConsumeLock(t) ==
    /\ pc[t] = "c_lock"
    /\ LockFree(buckets[op[t].name])
    /\ buckets' = [buckets EXCEPT ![op[t].name].lock = t]
    /\ pc' = [pc EXCEPT ![t] = "c_add"]
    /\ UNCHANGED <<now, regLock, op, ret, loc, hist, lastCall, made, advances, ncalls, exchange, middleware,
                   series>>

\* _add_tokens moving last_update only when it credits something.
AddTokensLazy(t) ==
    /\ pc[t] = "c_add"
    /\ LET b == buckets[op[t].name]
           r == Refilled(b, now)
       IN  /\ buckets' = [buckets EXCEPT ![op[t].name].tokens = r,
                                          ![op[t].name].last_update =
                                              IF r > b.tokens THEN now ELSE @]
           /\ loc' = [loc EXCEPT ![t] = [tokens0 |-> b.tokens,
                                         elapsed |-> now - b.last_update,
                                         at |-> now, refilled |-> r]]
    /\ pc' = [pc EXCEPT ![t] = "c_check"]
    /\ UNCHANGED <<now, regLock, op, ret, hist, lastCall, made, advances, ncalls, exchange, middleware,
                   series>>

\* self._add_tokens(), with the lock held.
AddTokens(t) ==
    /\ pc[t] = "c_add"
    /\ LET b == buckets[op[t].name]
           r == Refilled(b, now)
       IN  /\ buckets' = [buckets EXCEPT ![op[t].name].tokens = r,
                                          ![op[t].name].last_update = now]
           /\ loc' = [loc EXCEPT ![t] = [tokens0 |-> b.tokens,
                                         elapsed |-> now - b.last_update,
                                         at |-> now, refilled |-> r]]
    /\ pc' = [pc EXCEPT ![t] = "c_check"]
    /\ UNCHANGED <<now, regLock, op, ret, hist, lastCall, made, advances, ncalls, exchange, middleware,
                   series>>

\* Where a consume call goes back to: its caller is acquire or the thread itself.
AfterConsume(t) == IF op[t].kind = "acquire" THEN "a_ret" ELSE "idle"

\* `if token_count > self.tokens: return False`, leaving the with block.
EnoughAlways(n, b) == TRUE

Enough(n, b) == n * TokScale <= b.tokens

ConsumeCheckRaise(t) ==
    /\ pc[t] = "c_check"
    /\ LET name == op[t].name
           b == buckets[name]
       IN  IF Enough(op[t].n, b)
             THEN /\ pc' = [pc EXCEPT ![t] = "c_sub"]
                  /\ UNCHANGED <<buckets, ret, hist, lastCall>>
             ELSE /\ buckets' = [buckets EXCEPT ![name].lock = Free]
                  /\ ret' = [ret EXCEPT ![t] = "RateLimitExceededError"]
                  /\ hist' = [hist EXCEPT ![name] = HistAfter(@, loc[t], op[t].n, "False")]
                  /\ lastCall' = CallRecord(t, b, "False")
                  /\ pc' = [pc EXCEPT ![t] = AfterConsume(t)]
    /\ UNCHANGED <<now, regLock, op, loc, made, advances, ncalls, exchange, middleware, series>>

ConsumeCheck(t) ==
    /\ pc[t] = "c_check"
    /\ LET name == op[t].name
           b == buckets[name]
       IN  IF Enough(op[t].n, b)
             THEN /\ pc' = [pc EXCEPT ![t] = "c_sub"]
                  /\ UNCHANGED <<buckets, ret, hist, lastCall>>
             ELSE /\ buckets' = [buckets EXCEPT ![name].lock = Free]
                  /\ ret' = [ret EXCEPT ![t] = "False"]
                  /\ hist' = [hist EXCEPT ![name] = HistAfter(@, loc[t], op[t].n, "False")]
                  /\ lastCall' = CallRecord(t, b, "False")
                  /\ pc' = [pc EXCEPT ![t] = AfterConsume(t)]
    /\ UNCHANGED <<now, regLock, op, loc, made, advances, ncalls, exchange, middleware, series>>

\* `self.tokens = (self.tokens - token_count).quantize(...)`, `return True`.
\* The balance is a whole number of micro-tokens, so quantize leaves it as is.
SpendOne(b, n) == b.tokens - TokScale

Spend(b, n) == b.tokens - n * TokScale

ConsumeSub(t) ==
    /\ pc[t] = "c_sub"
    /\ LET name == op[t].name
           b == [buckets[name] EXCEPT !.tokens = Spend(buckets[name], op[t].n)]
       IN  /\ buckets' = [buckets EXCEPT ![name] = [b EXCEPT !.lock = Free]]
           /\ hist' = [hist EXCEPT ![name] = HistAfter(@, loc[t], op[t].n, "True")]
           /\ lastCall' = CallRecord(t, b, "True")
    /\ ret' = [ret EXCEPT ![t] = "True"]
    /\ pc' = [pc EXCEPT ![t] = AfterConsume(t)]
    /\ UNCHANGED <<now, regLock, op, loc, made, advances, ncalls, exchange, middleware, series>>

\* ---------------------------------------------------------------- RateLimiter
\* acquire(name, tokens): the argument check, before the registry lock.
CallAcquireNoCheck(t, name, n) ==
    /\ pc[t] = "idle"
    /\ ncalls < MaxCalls
    /\ ncalls' = ncalls + 1
    /\ op' = [op EXCEPT ![t] = [kind |-> "acquire", name |-> name, n |-> n]]
    /\ ret' = [ret EXCEPT ![t] = "none"]
    /\ pc' = [pc EXCEPT ![t] = "a_lock"]
    /\ UNCHANGED <<now, buckets, regLock, loc, hist, lastCall, made, advances, exchange, middleware,
                   series>>

CallAcquire(t, name, n) ==
    /\ pc[t] = "idle"
    /\ ncalls < MaxCalls
    /\ ncalls' = ncalls + 1
    /\ op' = [op EXCEPT ![t] = [kind |-> "acquire", name |-> name, n |-> n]]
    /\ IF n <= 0
         THEN /\ ret' = [ret EXCEPT ![t] = "ValueError"]
              /\ pc' = pc
         ELSE /\ ret' = [ret EXCEPT ![t] = "none"]
              /\ pc' = [pc EXCEPT ![t] = "a_lock"]
    /\ UNCHANGED <<now, buckets, regLock, loc, hist, lastCall, made, advances, exchange, middleware,
                   series>>

\* `with self._lock:` of RateLimiter: taken only when nobody holds it.
RegLockIgnored == TRUE

RegLockFree == regLock = Free

\* acquire creating a bucket for a name it does not find (a setdefault).
AcquireLockCreate(t) ==
    /\ pc[t] = "a_lock"
    /\ RegLockFree
    /\ regLock' = t
    /\ pc' = [pc EXCEPT ![t] = "c_lock"]
    /\ ret' = ret
    /\ buckets' = [k \in DOMAIN buckets \cup {op[t].name} |->
                     IF k \in DOMAIN buckets THEN buckets[k] ELSE NewBucket(RateScale, 1)]
    /\ UNCHANGED <<now, op, loc, hist, lastCall, made, advances, ncalls, exchange, middleware,
                   series>>

\* acquire leaving the registry lock once it has looked the name up.
AcquireLockRelease(t) ==
    /\ pc[t] = "a_lock"
    /\ RegLockFree
    /\ regLock' = Free
    /\ IF op[t].name \in DOMAIN buckets
         THEN /\ pc' = [pc EXCEPT ![t] = "c_lock"]
              /\ ret' = ret
         ELSE /\ pc' = [pc EXCEPT ![t] = "idle"]
              /\ ret' = [ret EXCEPT ![t] = "RateLimiterError: does not exist"]
    /\ UNCHANGED <<now, buckets, op, loc, hist, lastCall, made, advances, ncalls, exchange,
                   middleware, series>>

\* acquire takes the registry lock and looks the name up; an unknown name
\* raises, which leaves the with block.  A known name goes on to
\* self._buckets[name].consume(tokens) with the registry lock still held.
AcquireLock(t) ==
    /\ pc[t] = "a_lock"
    /\ RegLockFree
    /\ IF op[t].name \in DOMAIN buckets
         THEN /\ regLock' = t
              /\ pc' = [pc EXCEPT ![t] = "c_lock"]
              /\ ret' = ret
         ELSE /\ regLock' = Free
              /\ pc' = [pc EXCEPT ![t] = "idle"]
              /\ ret' = [ret EXCEPT ![t] = "RateLimiterError: does not exist"]
    /\ UNCHANGED <<now, buckets, op, loc, hist, lastCall, made, advances, ncalls, exchange, middleware,
                   series>>

\* `return result`: leaves acquire's with block.
AcquireReturn(t) ==
    /\ pc[t] = "a_ret"
    /\ regLock' = Free
    /\ pc' = [pc EXCEPT ![t] = "idle"]
    /\ UNCHANGED <<now, buckets, op, ret, loc, hist, lastCall, made, advances, ncalls, exchange, middleware,
                   series>>

\* add_limiter(name, config): no check before the lock.
CallAdd(t, name, cfg) ==
    /\ pc[t] = "idle"
    /\ ncalls < MaxCalls
    /\ ncalls' = ncalls + 1
    /\ op' = [op EXCEPT ![t] = [kind |-> "add_limiter", name |-> name, n |-> 0,
                                rate |-> cfg.requests_per_second,
                                capacity |-> cfg.burst_size]]
    /\ ret' = [ret EXCEPT ![t] = "none"]
    /\ pc' = [pc EXCEPT ![t] = "add_lock"]
    /\ UNCHANGED <<now, buckets, regLock, loc, hist, lastCall, made, advances, exchange, middleware,
                   series>>

AddLock(t) ==
    /\ pc[t] = "add_lock"
    /\ RegLockFree
    /\ regLock' = t
    /\ pc' = [pc EXCEPT ![t] = "add_body"]
    /\ UNCHANGED <<now, buckets, op, ret, loc, hist, lastCall, made, advances, ncalls, exchange, middleware,
                   series>>

\* The body of add_limiter: the duplicate check, TokenBucket(...), the insert;
\* every way out leaves the with block.
AddBodyOverwrite(t) ==
    /\ pc[t] = "add_body"
    /\ LET name == op[t].name IN
       IF ~CtorOK(op[t].rate, op[t].capacity)
         THEN /\ ret' = [ret EXCEPT ![t] = "ValueError"]
              /\ made' = Made(op[t].rate, op[t].capacity)
              /\ UNCHANGED <<buckets, hist>>
         ELSE /\ made' = Made(op[t].rate, op[t].capacity)
              /\ buckets' = [k \in DOMAIN buckets \cup {name} |->
                               IF k = name THEN NewBucket(op[t].rate, op[t].capacity)
                                           ELSE buckets[k]]
              /\ hist' = [hist EXCEPT ![name] = NewHist]
              /\ ret' = [ret EXCEPT ![t] = "None"]
    /\ regLock' = Free
    /\ pc' = [pc EXCEPT ![t] = "idle"]
    /\ UNCHANGED <<now, op, loc, lastCall, advances, ncalls, exchange, middleware, series>>

\* The duplicate error raised between a bare acquire() and release(): the lock
\* stays taken.
AddBodyLeak(t) ==
    /\ pc[t] = "add_body"
    /\ LET name == op[t].name IN
       IF name \in DOMAIN buckets
         THEN /\ ret' = [ret EXCEPT ![t] = "RateLimiterError: already exists"]
              /\ regLock' = regLock
              /\ UNCHANGED <<buckets, hist, made>>
         ELSE /\ regLock' = Free
              /\ IF ~CtorOK(op[t].rate, op[t].capacity)
                   THEN /\ ret' = [ret EXCEPT ![t] = "ValueError"]
                        /\ made' = Made(op[t].rate, op[t].capacity)
                        /\ UNCHANGED <<buckets, hist>>
                   ELSE /\ made' = Made(op[t].rate, op[t].capacity)
                        /\ buckets' = [k \in DOMAIN buckets \cup {name} |->
                                         IF k = name THEN NewBucket(op[t].rate, op[t].capacity)
                                                     ELSE buckets[k]]
                        /\ hist' = [hist EXCEPT ![name] = NewHist]
                        /\ ret' = [ret EXCEPT ![t] = "None"]
    /\ pc' = [pc EXCEPT ![t] = "idle"]
    /\ UNCHANGED <<now, op, loc, lastCall, advances, ncalls, exchange, middleware, series>>

AddBody(t) ==
    /\ pc[t] = "add_body"
    /\ LET name == op[t].name IN
       IF name \in DOMAIN buckets
         THEN /\ ret' = [ret EXCEPT ![t] = "RateLimiterError: already exists"]
              /\ UNCHANGED <<buckets, hist, made>>
         ELSE IF ~CtorOK(op[t].rate, op[t].capacity)
           THEN /\ ret' = [ret EXCEPT ![t] = "ValueError"]
                /\ made' = Made(op[t].rate, op[t].capacity)
                /\ UNCHANGED <<buckets, hist>>
           ELSE /\ made' = Made(op[t].rate, op[t].capacity)
                /\ buckets' = [k \in DOMAIN buckets \cup {name} |->
                                 IF k = name THEN NewBucket(op[t].rate, op[t].capacity)
                                             ELSE buckets[k]]
                /\ hist' = [hist EXCEPT ![name] = NewHist]
                /\ ret' = [ret EXCEPT ![t] = "None"]
    /\ regLock' = Free
    /\ pc' = [pc EXCEPT ![t] = "idle"]
    /\ UNCHANGED <<now, op, loc, lastCall, advances, ncalls, exchange, middleware, series>>

\* remove_limiter(name).
CallRemove(t, name) ==
    /\ pc[t] = "idle"
    /\ ncalls < MaxCalls
    /\ ncalls' = ncalls + 1
    /\ op' = [op EXCEPT ![t] = [kind |-> "remove_limiter", name |-> name, n |-> 0]]
    /\ ret' = [ret EXCEPT ![t] = "none"]
    /\ pc' = [pc EXCEPT ![t] = "rm_lock"]
    /\ UNCHANGED <<now, buckets, regLock, loc, hist, lastCall, made, advances, exchange, middleware,
                   series>>

RemoveLock(t) ==
    /\ pc[t] = "rm_lock"
    /\ RegLockFree
    /\ regLock' = t
    /\ pc' = [pc EXCEPT ![t] = "rm_body"]
    /\ UNCHANGED <<now, buckets, op, ret, loc, hist, lastCall, made, advances, ncalls, exchange, middleware,
                   series>>

RemoveBodyKeep(t) ==
    /\ pc[t] = "rm_body"
    /\ LET name == op[t].name IN
       IF name \notin DOMAIN buckets
         THEN ret' = [ret EXCEPT ![t] = "RateLimiterError: does not exist"]
         ELSE ret' = [ret EXCEPT ![t] = "None"]
    /\ buckets' = buckets
    /\ regLock' = Free
    /\ pc' = [pc EXCEPT ![t] = "idle"]
    /\ UNCHANGED <<now, op, loc, hist, lastCall, made, advances, ncalls, exchange, middleware,
                   series>>

RemoveBodyQuiet(t) ==
    /\ pc[t] = "rm_body"
    /\ buckets' = [k \in DOMAIN buckets \ {op[t].name} |-> buckets[k]]
    /\ ret' = [ret EXCEPT ![t] = "None"]
    /\ regLock' = Free
    /\ pc' = [pc EXCEPT ![t] = "idle"]
    /\ UNCHANGED <<now, op, loc, hist, lastCall, made, advances, ncalls, exchange, middleware,
                   series>>

RemoveBody(t) ==
    /\ pc[t] = "rm_body"
    /\ LET name == op[t].name IN
       IF name \notin DOMAIN buckets
         THEN /\ ret' = [ret EXCEPT ![t] = "RateLimiterError: does not exist"]
              /\ buckets' = buckets
         ELSE /\ buckets' = [k \in DOMAIN buckets \ {name} |-> buckets[k]]
              /\ ret' = [ret EXCEPT ![t] = "None"]
    /\ regLock' = Free
    /\ pc' = [pc EXCEPT ![t] = "idle"]
    /\ UNCHANGED <<now, op, loc, hist, lastCall, made, advances, ncalls, exchange, middleware,
                   series>>

\* ---------------------------------------------------------------- the clock
\* Time passes between any two steps.
Advance(delays) ==
    /\ advances < MaxAdvances
    /\ \E d \in delays : now' = now + d
    /\ advances' = advances + 1
    /\ UNCHANGED <<buckets, regLock, pc, op, ret, loc, hist, lastCall, made, ncalls, exchange, middleware,
                   series>>

\* ---------------------------------------------------------------- one bucket, one caller
\* The state after RateLimiter() and add_limiter("a", config): the rate_limiter
\* fixture of the tests.  One thread then calls acquire("a", n) and
\* _buckets["a"].consume(n) in any order while time passes.
InitCommon ==
    /\ now = 0
    /\ regLock = Free
    /\ pc = [t \in Threads |-> "idle"]
    /\ op = [t \in Threads |-> NoOp]
    /\ ret = [t \in Threads |-> "none"]
    /\ loc = [t \in Threads |-> NoLoc]
    /\ hist = [n \in Names |-> NewHist]
    /\ lastCall = NoCall
    /\ advances = 0
    /\ ncalls = 0
    /\ exchange = NoExchange
    /\ middleware = NoMiddleware
    /\ series = NoSeries

InitBucket ==
    /\ InitCommon
    /\ \E c \in Configs :
         /\ made = Made(c.requests_per_second, c.burst_size)
         /\ buckets = [n \in {"a"} |-> NewBucket(c.requests_per_second, c.burst_size)]

ConsumeStep(t) ==
    \/ ConsumeLock(t)
    \/ AddTokens(t)
    \/ ConsumeCheck(t)
    \/ ConsumeSub(t)

NextBucket ==
    \/ \E n \in Amounts \ {0} : CallAcquire(1, "a", n)
    \/ AcquireLock(1)
    \/ ConsumeStep(1)
    \/ AcquireReturn(1)
    \/ Advance(Delays)

SpecBucket == InitBucket /\ [][NextBucket]_vars

\* ---------------------------------------------------------------- N threads, one bucket
\* TokenBucket(rate, K) with K < N, then every thread calls consume(1) once.
\* The rates tried: 0, 0.3 and 1.0 tokens per second.
ThreadRates == {0, 3, 10}

InitThreads ==
    /\ InitCommon
    /\ \E r \in ThreadRates, k \in 1..(NThreads - 1) :
         /\ made = Made(r, k)
         /\ buckets = IF CtorOK(r, k) THEN [n \in {"a"} |-> NewBucket(r, k)]
                                      ELSE [n \in {} |-> NewBucket(r, k)]

NextThreads ==
    \/ \E t \in Threads : op[t] = NoOp /\ CallConsume(t, "a", 1)
    \/ \E t \in Threads : ConsumeStep(t)
    \/ Advance(Delays)

SpecThreads == InitThreads /\ [][NextThreads]_vars

\* ---------------------------------------------------------------- the registry
\* RateLimiter() starts empty; every thread calls add_limiter, remove_limiter
\* and acquire in any order while time passes.
Init ==
    /\ InitCommon
    /\ buckets = [n \in {} |-> NewBucket(0, 0)]
    /\ made = Made(0, 0)

Next ==
    \/ \E t \in Clients, name \in Names, c \in RegConfigs :
         ncalls < MaxOps /\ CallAdd(t, name, c)
    \/ \E t \in Clients, name \in Names : ncalls < MaxOps /\ CallRemove(t, name)
    \/ \E t \in Clients, name \in Names, n \in RegAmounts :
         ncalls < MaxOps /\ CallAcquire(t, name, n)
    \/ \E t \in Clients : AddLock(t)
    \/ \E t \in Clients : AddBody(t)
    \/ \E t \in Clients : RemoveLock(t)
    \/ \E t \in Clients : RemoveBody(t)
    \/ \E t \in Clients : AcquireLock(t)
    \/ \E t \in Clients : ConsumeStep(t)
    \/ \E t \in Clients : AcquireReturn(t)
    \/ Advance(RegDelays)

Spec == Init /\ [][Next]_vars

\* The registry with fair scheduling: a thread inside a call that can take its
\* next step again and again (its lock keeps coming free) takes it.  Starting a
\* new call is up to the caller and is not forced.
ThreadStep(t) ==
    \/ AddLock(t)
    \/ AddBody(t)
    \/ RemoveLock(t)
    \/ RemoveBody(t)
    \/ AcquireLock(t)
    \/ ConsumeStep(t)
    \/ AcquireReturn(t)

\* The callers share one name, so that every call meets the same lock and
\* the same bucket: 0.3 tokens/s, burst 1.
FairConfigs == { [requests_per_second |-> 3, burst_size |-> 1] }

NextFair ==
    \/ \E t \in Clients, c \in FairConfigs : ncalls < MaxOps /\ CallAdd(t, "a", c)
    \/ \E t \in Clients : ncalls < MaxOps /\ CallRemove(t, "a")
    \/ \E t \in Clients : ncalls < MaxOps /\ CallAcquire(t, "a", 1)
    \/ \E t \in Clients : ThreadStep(t)
    \/ Advance(RegDelays)

SpecFair ==
    /\ Init
    /\ [][NextFair]_vars
    /\ \A t \in Clients : SF_vars(ThreadStep(t))

\* ---------------------------------------------------------------- racing add_limiter
\* RateLimiter() starts empty; every thread calls add_limiter("a", config)
\* once, each with a config of its choice.
NextAdds ==
    \/ \E t \in Threads, c \in RegConfigs : op[t] = NoOp /\ CallAdd(t, "a", c)
    \/ \E t \in Threads : AddLock(t)
    \/ \E t \in Threads : AddBody(t)

SpecAdds == Init /\ [][NextAdds]_vars

\* ---------------------------------------------------------------- rejected token counts
\* The registry holds "a" (the fixture); callers pass token counts <= 0 to
\* _buckets["a"].consume and to acquire, on "a" and on the unknown "b", and
\* "a" can be removed meanwhile, as in test_rate_limiter().
BadAmounts == {-1, 0}

InitArgs ==
    /\ InitCommon
    /\ \E c \in RegConfigs :
         /\ made = Made(c.requests_per_second, c.burst_size)
         /\ buckets = [n \in {"a"} |-> NewBucket(c.requests_per_second, c.burst_size)]

NextArgs ==
    \/ \E t \in Clients, n \in BadAmounts : ncalls < MaxOps /\ CallConsume(t, "a", n)
    \/ \E t \in Clients, name \in Names, n \in BadAmounts \cup {1} :
         ncalls < MaxOps /\ CallAcquire(t, name, n)
    \/ \E t \in Clients : ncalls < MaxOps /\ CallRemove(t, "a")
    \/ \E t \in Clients : RemoveLock(t)
    \/ \E t \in Clients : RemoveBody(t)
    \/ \E t \in Clients : AcquireLock(t)
    \/ \E t \in Clients : ConsumeStep(t)
    \/ \E t \in Clients : AcquireReturn(t)
    \/ Advance(RegDelays)

SpecArgs == InitArgs /\ [][NextArgs]_vars

\* ---------------------------------------------------------------- RateLimitConfig
\* RateLimitConfig.__post_init__: the four checks in the order of the code;
\* the first that fails raises ValueError.  rps is in tenths of a token per
\* second, burst in whole tokens.
PostInitNoRatio(rps, burst, name) ==
    IF rps <= 0 THEN "ValueError"
    ELSE IF burst <= 0 THEN "ValueError"
    ELSE IF name = "" THEN "ValueError"
    ELSE "None"

PostInit(rps, burst, name) ==
    IF rps <= 0 THEN "ValueError"
    ELSE IF burst <= 0 THEN "ValueError"
    ELSE IF name = "" THEN "ValueError"
    ELSE IF burst * RateScale < rps THEN "ValueError"
    ELSE "None"

\* The arguments tried: rates -1.0, 0, 0.3, 1.0, 2.0, 3.0; bursts; names.
CfgRates == {-10, 0, 3, 10, 20, 30}
CfgBursts == {-1, 0, 1, 2, 3}
CfgNames == {"", "a"}

\* RateLimitConfig(requests_per_second, burst_size, name) called by thread t.
Construct(t, rps, burst, name) ==
    /\ pc[t] = "idle"
    /\ ncalls < MaxOps
    /\ ncalls' = ncalls + 1
    /\ op' = [op EXCEPT ![t] = [kind |-> "RateLimitConfig", name |-> name, n |-> 0,
                                rate |-> rps, capacity |-> burst]]
    /\ ret' = [ret EXCEPT ![t] = PostInit(rps, burst, name)]
    /\ UNCHANGED <<now, buckets, regLock, pc, loc, hist, lastCall, made, advances, exchange, middleware,
                   series>>

NextConfig ==
    \E t \in Clients, rps \in CfgRates, burst \in CfgBursts, name \in CfgNames :
        Construct(t, rps, burst, name)

SpecConfig == Init /\ [][NextConfig]_vars

\* ---------------------------------------------------------------- BinanceExchange
\* BinanceExchange.__init__ registers "binance" with 10 requests/s, burst 20.
\* Every request method (get_ticker_price, get_balance, create_order,
\* get_order_status, cancel_order, get_order_book, get_trading_fees,
\* get_recent_trades) opens the same way: acquire('binance'), raise on False,
\* else the call to self.exchange.
ExchangeName == "binance"

ExchangeConfig == [requests_per_second |-> 100, burst_size |-> 20]

\* Tokens earlier requests have drawn since __init__, and the clock steps
\* between steps: one tick, and the 0.1 s that refills one token.
Drawn == {0, 18, 19, 20}
ExchangeDelays == {1, 1000000}

InitExchange ==
    /\ now = 0
    /\ regLock = Free
    /\ pc = [t \in Threads |-> "idle"]
    /\ op = [t \in Threads |-> NoOp]
    /\ ret = [t \in Threads |-> "none"]
    /\ loc = [t \in Threads |-> NoLoc]
    /\ hist = [n \in {ExchangeName} |-> NewHist]
    /\ lastCall = NoCall
    /\ advances = 0
    /\ ncalls = 0
    /\ exchange = NoExchange
    /\ middleware = NoMiddleware
    /\ series = NoSeries
    /\ made = Made(ExchangeConfig.requests_per_second, ExchangeConfig.burst_size)
    /\ \E d \in Drawn :
         buckets = [n \in {ExchangeName} |->
                      [NewBucket(ExchangeConfig.requests_per_second,
                                 ExchangeConfig.burst_size)
                         EXCEPT !.tokens = @ - d * TokScale]]

\* A request method is called on task t.
RequestStart(t) ==
    /\ pc[t] = "idle"
    /\ exchange.task[t] # "enter"
    /\ exchange' = [exchange EXCEPT !.task[t] = "enter"]
    /\ ret' = [ret EXCEPT ![t] = "none"]
    /\ UNCHANGED <<now, buckets, regLock, pc, op, loc, hist, lastCall, made, advances, ncalls,
                   middleware,
                   series>>

\* Its first statement: self.rate_limiter.acquire('binance').
RequestAcquire(t) ==
    /\ exchange.task[t] = "enter"
    /\ ret[t] = "none"
    /\ CallAcquire(t, ExchangeName, 1)

\* `if not ...acquire('binance'): raise ...`, else `await self.exchange.<call>`.
RequestAfterIgnore(t) ==
    /\ pc[t] = "idle"
    /\ exchange.task[t] = "enter"
    /\ ret[t] \in {"True", "False"}
    /\ exchange' = [exchange EXCEPT !.requests = @ + 1, !.task[t] = "sent"]
    /\ UNCHANGED <<now, buckets, regLock, pc, op, ret, loc, hist, lastCall, made, advances,
                   ncalls, middleware,
                   series>>

RequestAfter(t) ==
    /\ pc[t] = "idle"
    /\ exchange.task[t] = "enter"
    /\ ret[t] \in {"True", "False"}
    /\ exchange' = IF ret[t] = "True"
                     THEN [exchange EXCEPT !.requests = @ + 1, !.task[t] = "sent"]
                     ELSE [exchange EXCEPT !.task[t] = "raised"]
    /\ UNCHANGED <<now, buckets, regLock, pc, op, ret, loc, hist, lastCall, made, advances,
                   ncalls, middleware,
                   series>>

NextExchange ==
    \/ \E t \in Clients : RequestStart(t)
    \/ \E t \in Clients : RequestAcquire(t)
    \/ \E t \in Clients : AcquireLock(t)
    \/ \E t \in Clients : ConsumeStep(t)
    \/ \E t \in Clients : AcquireReturn(t)
    \/ \E t \in Clients : RequestAfter(t)
    \/ Advance(ExchangeDelays)

SpecExchange == InitExchange /\ [][NextExchange]_vars

\* ---------------------------------------------------------------- APIMiddleware.rate_limit
\* The timestamps of `stamps` less than `window_seconds` old at the time `at`.
Fresh(stamps, at, window_seconds) ==
    SelectSeq(stamps, LAMBDA ts : at - ts < window_seconds * TickScale)

\* The limits, windows (in seconds) and clock steps tried: 0.5 s and 1.1 s.
MwLimits == {1, 2}
MwWindows == {1, 3}
MwDelays == {5000000, 11000000}

\* rate_limit(key, max_requests, window_seconds): the key's list is created if
\* missing and stripped of old entries; a full list raises, else the call's
\* time is appended.
RateLimit(key, max_requests, window_seconds) ==
    /\ ncalls < MaxOps
    /\ ncalls' = ncalls + 1
    /\ LET limits == middleware.rate_limits
           kept == Fresh(IF key \in DOMAIN limits THEN limits[key] ELSE <<>>,
                         now, window_seconds)
           raised == Len(kept) >= max_requests
           after == IF raised THEN kept ELSE Append(kept, now)
       IN  middleware' =
             [ rate_limits |-> [k \in DOMAIN limits \cup {key} |->
                                  IF k = key THEN after ELSE limits[k]],
               accepted |-> [middleware.accepted EXCEPT
                               ![key] = IF raised THEN @ ELSE Append(@, now)],
               last |-> [ key |-> key, max_requests |-> max_requests,
                          window_seconds |-> window_seconds, at |-> now,
                          recent |-> Len(Fresh(middleware.accepted[key], now,
                                               window_seconds)),
                          result |-> IF raised THEN "RateLimitError" ELSE "None",
                          recorded |-> Len(after) > Len(kept) ] ]
    /\ UNCHANGED <<now, buckets, regLock, pc, op, ret, loc, hist, lastCall, made, advances,
                   exchange, series>>

NextMiddleware ==
    \/ \E key \in MwKeys, m \in MwLimits, w \in MwWindows : RateLimit(key, m, w)
    \/ Advance(MwDelays)

SpecMiddleware == Init /\ [][NextMiddleware]_vars

\* ---------------------------------------------------------------- one caller polling
\* TokenBucket(0.1, 1), and one caller that waits and calls consume(1), for
\* ever.  The bucket reads the clock only as now - last_update, so time is
\* measured here from the bucket's last_update: last_update stays 0 and `now`
\* is the time since the last call.  The waits: 5 microseconds, 0.1 s, 1 s.
PollRate == [requests_per_second |-> 1, burst_size |-> 1]
PollDelays == {50, 1000000, 10000000}

InitPoll ==
    /\ InitCommon
    /\ made = Made(PollRate.requests_per_second, PollRate.burst_size)
    /\ buckets = [n \in {"a"} |-> NewBucket(PollRate.requests_per_second,
                                            PollRate.burst_size)]

\* The caller waits d ticks before its next call.
PollWait(d) ==
    /\ now = 0
    /\ now' = d
    /\ UNCHANGED <<buckets, regLock, pc, op, ret, loc, hist, lastCall, made, advances,
                   ncalls, exchange, middleware,
                   series>>

\* consume(1), the whole call: _add_tokens, the comparison, the subtraction.
\* `self.last_update = now` moves the origin of time to this call.
Poll ==
    /\ now > 0
    /\ LET b == [buckets["a"] EXCEPT !.tokens = Refilled(buckets["a"], now)]
       IN  IF Enough(1, b)
             THEN /\ buckets' = [buckets EXCEPT !["a"].tokens = Spend(b, 1)]
                  /\ ret' = [ret EXCEPT ![1] = "True"]
             ELSE /\ buckets' = [buckets EXCEPT !["a"].tokens = b.tokens]
                  /\ ret' = [ret EXCEPT ![1] = "False"]
    /\ now' = 0
    /\ op' = [op EXCEPT ![1] = [kind |-> "consume", name |-> "a", n |-> 1]]
    /\ UNCHANGED <<regLock, pc, loc, hist, lastCall, made, advances, ncalls, exchange,
                   middleware,
                   series>>

NextPoll ==
    \/ \E d \in PollDelays : PollWait(d)
    \/ Poll

\* Time keeps advancing and the caller keeps retrying.
SpecPoll ==
    /\ InitPoll
    /\ [][NextPoll]_vars
    /\ WF_vars(\E d \in PollDelays : PollWait(d))
    /\ WF_vars(Poll)

\* ---------------------------------------------------------------- series of refused calls
\* One caller of one bucket; each step is a wait followed by a whole consume(n)
\* call.  `series` remembers the balance and the time left by the last granted
\* call and counts the calls refused since.
SeriesDelays == {1, 4999999, 5000000, 33333334}
SeriesAmounts == {1, 5}

SeriesCall(d, n) ==
    /\ ncalls < MaxCalls
    /\ ncalls' = ncalls + 1
    /\ now' = now + d
    /\ LET b == [buckets["a"] EXCEPT !.tokens = Refilled(buckets["a"], now + d),
                                     !.last_update = now + d]
       IN  IF Enough(n, b)
             THEN /\ buckets' = [buckets EXCEPT !["a"] = [b EXCEPT !.tokens = Spend(b, n)]]
                  /\ ret' = [ret EXCEPT ![1] = "True"]
                  /\ series' = [begun |-> TRUE, base |-> Spend(b, n),
                                since |-> now + d, k |-> 0]
             ELSE /\ buckets' = [buckets EXCEPT !["a"] = b]
                  /\ ret' = [ret EXCEPT ![1] = "False"]
                  /\ series' = [series EXCEPT !.k = @ + 1]
    /\ op' = [op EXCEPT ![1] = [kind |-> "consume", name |-> "a", n |-> n]]
    /\ UNCHANGED <<regLock, pc, loc, hist, lastCall, made, advances, exchange,
                   middleware>>

NextSeries == \E d \in SeriesDelays, n \in SeriesAmounts : SeriesCall(d, n)

SpecSeries == InitBucket /\ [][NextSeries]_vars

\* ---------------------------------------------------------------- a clock that steps back
\* time.time() is the wall clock: between two calls it may have been set back.
\* One caller of one bucket, as in SpecBucket, with such steps among the waits.
ClockDelays == {-10000000, -5000000, 5000000, 10000000}

NextClock ==
    \/ \E n \in Amounts \ {0} : CallAcquire(1, "a", n)
    \/ AcquireLock(1)
    \/ ConsumeStep(1)
    \/ AcquireReturn(1)
    \/ Advance(ClockDelays)

SpecClock == InitBucket /\ [][NextClock]_vars

\* ---------------------------------------------------------------- what the claims speak of
CeilDiv(a, b) == (a + b - 1) \div b

\* elapsed * rate amounts to at least `micro` micro-tokens (rate > 0).
AtLeast(elapsed, rate, micro) == elapsed >= CeilDiv(micro * Quantum, rate)

\* elapsed * rate is exactly m whole tokens.
ExactTokens(elapsed, rate, m) ==
    LET w == m * TokScale * Quantum
    IN  w % rate = 0 /\ elapsed = w \div rate

Cap(name) == buckets[name].capacity \div TokScale

InConsume(t) == pc[t] \in {"c_add", "c_check", "c_sub"}

Returned(t) == pc[t] = "idle" /\ op[t] # NoOp

\* C1: every registered bucket's balance stays within 0..capacity, whatever
\* consume calls are made and however much time passes between them.
C1_CapacityBound ==
    \A name \in DOMAIN buckets :
        /\ 0 <= buckets[name].tokens
        /\ buckets[name].tokens <= buckets[name].capacity

\* An emptied bucket whose refill, had it not been capped, would exceed capacity.
C1_Witness ==
    \E t \in Threads :
        /\ pc[t] = "c_check"
        /\ loc[t].tokens0 = 0
        /\ buckets[op[t].name].tokens = buckets[op[t].name].capacity
        /\ AtLeast(loc[t].elapsed, buckets[op[t].name].rate,
                   buckets[op[t].name].capacity + TokScale)

\* C2 as stated: a bucket is initialized with capacity K < N and rate 0, and the
\* N consume(1) calls on it end with K successes and N - K failures, never
\* more than K tokens granted.
C2_RateZero ==
    (made.rate = 0 /\ made.capacity < NThreads) =>
        /\ "a" \in DOMAIN buckets
        /\ hist["a"].granted <= made.capacity
        /\ (\A t \in Threads : Returned(t)) =>
              /\ hist["a"].succ = made.capacity
              /\ hist["a"].failed = NThreads - made.capacity

\* C2 amended: on a bucket of any accepted rate and capacity K < N, as long as
\* the clock has not moved since construction, the completed consume(1) calls
\* granted min(completed, K) tokens; once all N returned, K succeeded and
\* N - K failed.
C2_NoRefill ==
    \A name \in DOMAIN buckets :
        now = hist[name].created =>
            /\ hist[name].granted <= Cap(name)
            /\ hist[name].succ = Min(hist[name].done, Cap(name))
            /\ hist[name].failed = hist[name].done - hist[name].succ
            /\ (\A t \in Threads : Returned(t)) =>
                  /\ hist[name].succ = Cap(name)
                  /\ hist[name].failed = NThreads - Cap(name)

C2_Witness ==
    /\ "a" \in DOMAIN buckets
    /\ now = hist["a"].created
    /\ \A t \in Threads : Returned(t)
    /\ hist["a"].succ = Cap("a")
    /\ hist["a"].failed = NThreads - Cap("a")
    /\ hist["a"].failed > 0

\* C3: a consume call runs its refill, check and subtract alone: no two threads
\* are inside the locked section of one bucket, and from a call's refill to its
\* return the bucket holds exactly the tokens and last_update that call wrote.
C3_Atomic ==
    /\ \A t1, t2 \in Threads :
          (t1 # t2 /\ InConsume(t1) /\ InConsume(t2)) => op[t1].name # op[t2].name
    /\ \A t \in Threads :
          InConsume(t) => buckets[op[t].name].lock = t
    /\ \A t \in Threads :
          pc[t] \in {"c_check", "c_sub"} =>
              /\ buckets[op[t].name].tokens = loc[t].refilled
              /\ buckets[op[t].name].last_update = loc[t].at

\* One thread between refill and subtract while another waits for the lock
\* and the clock has moved on.
C3_Witness ==
    \E t1, t2 \in Threads :
        /\ pc[t1] = "c_sub"
        /\ pc[t2] = "c_lock"
        /\ op[t1].name = op[t2].name
        /\ now > loc[t1].at

\* C4: no acquire waits for the registry lock while an acquire on another name
\* holds it.
C4_NoCrossBlocking ==
    \A t1, t2 \in Threads :
        ~ /\ pc[t1] = "a_lock"
          /\ regLock = t2
          /\ op[t2].kind = "acquire"
          /\ op[t1].name \in DOMAIN buckets
          /\ op[t2].name # op[t1].name

\* C5: on a fresh bucket, single-token calls that all read the construction
\* time succeed up to the capacity-th and fail from the next on.
C5_Burst ==
    \A name \in DOMAIN buckets :
        (hist[name].fresh /\ hist[name].pure) =>
            /\ hist[name].ok = Min(hist[name].calls, Cap(name))
            /\ hist[name].calls > Cap(name) => hist[name].lastRes = "False"

C5_Witness ==
    \E name \in DOMAIN buckets :
        /\ hist[name].fresh /\ hist[name].pure
        /\ Cap(name) > 1
        /\ hist[name].calls = Cap(name) + 1
        /\ hist[name].ok = Cap(name)
        /\ hist[name].lastRes = "False"

\* C6: after a wait of at least capacity / rate, single-token calls that all
\* read the same time succeed up to the capacity-th and fail from the next on,
\* whatever the balance was before the wait.
C6_NoOverRefill ==
    \A name \in DOMAIN buckets :
        ( /\ ~hist[name].fresh
          /\ hist[name].pure
          /\ AtLeast(hist[name].wait, buckets[name].rate, buckets[name].capacity) ) =>
            /\ hist[name].ok = Min(hist[name].calls, Cap(name))
            /\ hist[name].calls > Cap(name) => hist[name].lastRes = "False"

\* An exhausted bucket, a wait several times capacity / rate, then capacity
\* grants and a denial.
C6_Witness ==
    \E name \in DOMAIN buckets :
        /\ ~hist[name].fresh /\ hist[name].pure
        /\ hist[name].afterFail /\ hist[name].base = 0
        /\ AtLeast(hist[name].wait, buckets[name].rate, 3 * buckets[name].capacity)
        /\ hist[name].calls = Cap(name) + 1
        /\ hist[name].ok = Cap(name)

\* C7: a consume(1) that finds the balance at 0 succeeds exactly when the time
\* since last_update, times the rate, is at least one token.
C7_RefillLinearity ==
    (lastCall.result # "none" /\ lastCall.tokens0 = 0 /\ lastCall.n = 1) =>
        (lastCall.result = "True" <=> AtLeast(lastCall.elapsed, lastCall.rate, TokScale))

\* Success at the first tick that makes a whole token.
C7_Witness ==
    /\ lastCall.tokens0 = 0 /\ lastCall.n = 1
    /\ lastCall.result = "True"
    /\ lastCall.elapsed > 0
    /\ ~AtLeast(lastCall.elapsed - 1, lastCall.rate, TokScale)

\* C8: after a denied acquire left less than one token, a wait worth exactly m
\* whole tokens (0 < m < capacity) lets the next m single-token acquire calls
\* reading that time succeed, and the one after fail.
C8_PartialRefill ==
    \A name \in DOMAIN buckets : \A m \in 1..(Cap(name) - 1) :
        ( /\ ~hist[name].fresh
          /\ hist[name].pure
          /\ hist[name].afterFail
          /\ hist[name].base < TokScale
          /\ ExactTokens(hist[name].wait, buckets[name].rate, m) ) =>
            /\ hist[name].ok = Min(hist[name].calls, m)
            /\ hist[name].calls > m => hist[name].lastRes = "False"

C8_Witness ==
    \E name \in DOMAIN buckets : \E m \in 1..(Cap(name) - 1) :
        /\ ~hist[name].fresh /\ hist[name].pure
        /\ hist[name].afterFail /\ hist[name].base < TokScale
        /\ ExactTokens(hist[name].wait, buckets[name].rate, m)
        /\ hist[name].calls = m + 1
        /\ hist[name].ok = m
        /\ \E t \in Threads : op[t].kind = "acquire" /\ ret[t] = "False"

\* C9: a consume(n) succeeds exactly when n is at most the balance its refill
\* left; it then leaves that balance less n, and otherwise that balance.
C9_ConsumeDecision ==
    lastCall.result # "none" =>
        /\ lastCall.result = "True" <=> lastCall.n * TokScale <= lastCall.refilled
        /\ lastCall.result = "True" =>
              lastCall.tokens1 = lastCall.refilled - lastCall.n * TokScale
        /\ lastCall.result = "False" => lastCall.tokens1 = lastCall.refilled
        /\ lastCall.refilled >= lastCall.tokens0

\* A denied two-token request that leaves a token for a later one-token request.
C9_Witness ==
    /\ lastCall.result = "False"
    /\ lastCall.n = 2
    /\ lastCall.elapsed > 0
    /\ lastCall.refilled > lastCall.tokens0
    /\ lastCall.tokens1 >= TokScale

\* C10: the tokens a bucket has granted since construction never exceed its
\* capacity plus rate times the time since construction.
C10_NoOverGrant ==
    \A name \in DOMAIN buckets :
        \/ hist[name].granted * TokScale <= buckets[name].capacity
        \/ AtLeast(now - hist[name].created, buckets[name].rate,
                   hist[name].granted * TokScale - buckets[name].capacity)

\* Grants beyond the capacity, at the first tick that pays for them.
C10_Witness ==
    \E name \in DOMAIN buckets :
        /\ hist[name].granted * TokScale > buckets[name].capacity
        /\ ~AtLeast(now - hist[name].created - 1, buckets[name].rate,
                    hist[name].granted * TokScale - buckets[name].capacity)

\* ---------------------------------------------------------------- the registry's contract
\* A step in which thread t leaves position `at`.
Leaves(t, at) == pc[t] = at /\ pc'[t] # at

\* C11: add_limiter on a name that is registered raises the duplicate error and
\* leaves the registry as it was: the bucket under that name keeps its rate,
\* capacity, balance and last_update, whatever the new config holds.
C11_DuplicateRejected ==
    [][\A t \in Clients :
          (Leaves(t, "add_body") /\ op[t].name \in DOMAIN buckets)
              => /\ ret'[t] = "RateLimiterError: already exists"
                 /\ buckets' = buckets]_vars

\* A rejected add_limiter whose config differs from the registered bucket's,
\* which has been drawn on.
C11_Witness ==
    \E t \in Clients :
        /\ Returned(t)
        /\ op[t].kind = "add_limiter"
        /\ ret[t] = "RateLimiterError: already exists"
        /\ op[t].name \in DOMAIN buckets
        /\ buckets[op[t].name].rate # op[t].rate
        /\ buckets[op[t].name].tokens < buckets[op[t].name].capacity

\* C12: a remove_limiter(name) that returns takes the name out of the registry;
\* the name comes back only through an add_limiter(name, ...) that succeeds;
\* and while it is out every acquire(name) raises the unknown-limiter error and
\* changes no bucket.
C12_RemovalInvalidates ==
    [][/\ \A t \in Clients :
            (Leaves(t, "rm_body") /\ op[t].name \in DOMAIN buckets)
                => /\ ret'[t] = "None"
                   /\ op[t].name \notin DOMAIN buckets'
       /\ \A name \in (DOMAIN buckets') \ (DOMAIN buckets) :
            \E t \in Clients :
                /\ Leaves(t, "add_body")
                /\ op[t].name = name
                /\ ret'[t] = "None"
       /\ \A t \in Clients :
            (Leaves(t, "a_lock") /\ op[t].name \notin DOMAIN buckets)
                => /\ ret'[t] = "RateLimiterError: does not exist"
                   /\ pc'[t] = "idle"
                   /\ buckets' = buckets]_vars

\* An acquire refused on a name whose bucket had been drawn on and then removed.
C12_Witness ==
    \E t \in Clients :
        /\ Returned(t)
        /\ op[t].kind = "acquire"
        /\ ret[t] = "RateLimiterError: does not exist"
        /\ op[t].name \notin DOMAIN buckets
        /\ hist[op[t].name].succ > 0

\* C13: remove_limiter and acquire (tokens > 0) on a name that is not registered
\* raise the unknown-limiter error and leave the registry as it was: the same
\* keys, and every bucket's balance and last_update.
C13_UnknownName ==
    [][\A t \in Clients :
          ( /\ op[t].name \notin DOMAIN buckets
            /\ \/ Leaves(t, "rm_body")
               \/ Leaves(t, "a_lock") /\ op[t].n > 0 )
              => /\ ret'[t] = "RateLimiterError: does not exist"
                 /\ pc'[t] = "idle"
                 /\ DOMAIN buckets' = DOMAIN buckets
                 /\ \A k \in DOMAIN buckets :
                       /\ buckets'[k].tokens = buckets[k].tokens
                       /\ buckets'[k].last_update = buckets[k].last_update]_vars

\* A remove_limiter refused on an unknown name while another name is registered
\* and its bucket has been drawn on.
C13_Witness ==
    \E t \in Clients, k \in DOMAIN buckets :
        /\ Returned(t)
        /\ op[t].kind = "remove_limiter"
        /\ ret[t] = "RateLimiterError: does not exist"
        /\ op[t].name \notin DOMAIN buckets
        /\ buckets[k].tokens < buckets[k].capacity

\* C14: a consume or acquire called with tokens <= 0 raises the invalid-argument
\* error at once, whether or not the name is registered (the argument check
\* comes before the lookup), and changes no bucket, no registry entry, no lock.
C14_InvalidTokens ==
    [][\A t \in Clients :
          ( /\ pc[t] = "idle"
            /\ ncalls' # ncalls
            /\ op'[t].kind \in {"consume", "acquire"}
            /\ op'[t].n <= 0 )
              => /\ pc'[t] = "idle"
                 /\ ret'[t] = "ValueError"
                 /\ buckets' = buckets
                 /\ regLock' = regLock]_vars

\* acquire("a", 0) refused as an invalid argument after "a", once drawn on, was
\* removed, and a direct consume with a negative count refused too.
C14_Witness ==
    \E t \in Clients, u \in Clients :
        /\ Returned(t)
        /\ op[t].kind = "acquire"
        /\ op[t].n = 0
        /\ ret[t] = "ValueError"
        /\ op[t].name \notin DOMAIN buckets
        /\ hist[op[t].name].succ > 0
        /\ Returned(u)
        /\ op[u].kind = "consume"
        /\ op[u].n < 0
        /\ ret[u] = "ValueError"

\* C15: an acquire with tokens > 0 that finds its name registered never raises:
\* it goes into consume, comes out with True or False, and returns that; a
\* balance below the request gives False, not an error.
C15_ExhaustionNotError ==
    [][\A t \in Clients :
          /\ (Leaves(t, "a_lock") /\ op[t].name \in DOMAIN buckets)
                => /\ pc'[t] = "c_lock"
                   /\ ret'[t] = "none"
          /\ (op[t].kind = "acquire" /\ (pc[t] = "c_lock" \/ InConsume(t)) /\ pc'[t] # pc[t])
                => /\ pc'[t] \in {"c_add", "c_check", "c_sub", "a_ret"}
                   /\ ret'[t] \in {"none", "True", "False"}
                   /\ pc'[t] = "a_ret" => ret'[t] \in {"True", "False"}
          /\ ( /\ op[t].kind = "acquire"
               /\ Leaves(t, "c_check")
               /\ op[t].n * TokScale > buckets[op[t].name].tokens )
                => /\ pc'[t] = "a_ret"
                   /\ ret'[t] = "False"
          /\ Leaves(t, "a_ret")
                => /\ pc'[t] = "idle"
                   /\ ret'[t] = ret[t]
                   /\ ret[t] \in {"True", "False"}]_vars

\* An acquire that returned False from a registered bucket short of the request.
C15_Witness ==
    \E t \in Clients :
        /\ Returned(t)
        /\ op[t].kind = "acquire"
        /\ ret[t] = "False"
        /\ op[t].name \in DOMAIN buckets
        /\ buckets[op[t].name].tokens < op[t].n * TokScale

\* C16: RateLimitConfig(requests_per_second, burst_size, name) raises the
\* validation error exactly when requests_per_second <= 0, or burst_size <= 0,
\* or the name is empty, or burst_size < requests_per_second; otherwise it
\* returns the config.
C16_ConfigValidation ==
    \A t \in Clients :
        op[t].kind = "RateLimitConfig" =>
            /\ ret[t] \in {"ValueError", "None"}
            /\ ret[t] = "ValueError" <=>
                  \/ op[t].rate <= 0
                  \/ op[t].capacity <= 0
                  \/ op[t].name = ""
                  \/ op[t].capacity * RateScale < op[t].rate

\* One config refused for burst_size < requests_per_second alone, one accepted
\* with burst_size = requests_per_second.
C16_Witness ==
    \E t \in Clients, u \in Clients :
        /\ op[t].kind = "RateLimitConfig"
        /\ ret[t] = "ValueError"
        /\ op[t].rate > 0 /\ op[t].capacity > 0 /\ op[t].name # ""
        /\ op[u].kind = "RateLimitConfig"
        /\ ret[u] = "None"
        /\ op[u].capacity * RateScale = op[u].rate

\* C17: every add_limiter that succeeds, a re-add after a removal included,
\* puts under a name that was free a bucket built from the config alone:
\* rate = requests_per_second, capacity = burst_size, a full balance, fresh
\* last_update and lock; no other name changes.
C17_AddInstallsFresh ==
    [][\A t \in Clients :
          (Leaves(t, "add_body") /\ ret'[t] = "None")
              => LET name == op[t].name IN
                 /\ name \notin DOMAIN buckets
                 /\ DOMAIN buckets' = DOMAIN buckets \cup {name}
                 /\ buckets'[name].rate = op[t].rate
                 /\ buckets'[name].capacity = op[t].capacity * TokScale
                 /\ buckets'[name].tokens = buckets'[name].capacity
                 /\ buckets'[name].last_update = now
                 /\ buckets'[name].lock = Free
                 /\ \A k \in DOMAIN buckets : buckets'[k] = buckets[k]]_vars

\* A name added again after its earlier bucket was drawn on and removed: the
\* new bucket is full and nothing has been consumed from it.
C17_Witness ==
    \E t \in Clients :
        /\ Returned(t)
        /\ op[t].kind = "add_limiter"
        /\ ret[t] = "None"
        /\ op[t].name \in DOMAIN buckets
        /\ buckets[op[t].name].tokens = buckets[op[t].name].capacity
        /\ hist[op[t].name].done = 0
        /\ lastCall.name = op[t].name
        /\ lastCall.result = "True"
        /\ lastCall.rate # op[t].rate

\* Some call is under way.
Busy == \E t \in Clients : pc[t] # "idle"

\* C18: calls never wait for tokens and never deadlock: whenever a call is
\* under way some thread can step; a thread inside consume can always take
\* its next step whatever the balance; and, the locks being scheduled fairly,
\* every call that was started returns (a result or an error).
C18_NonBlocking ==
    /\ [](Busy => \E t \in Clients : ENABLED ThreadStep(t))
    /\ [](\A t \in Clients : InConsume(t) => ENABLED ConsumeStep(t))
    /\ \A t \in Clients : (pc[t] # "idle") ~> (pc[t] = "idle")

\* Both callers back from their calls after one waited for the registry lock
\* while the other raised the duplicate error inside the locked section.
C18_Witness ==
    \E t \in Clients, u \in Clients :
        /\ t # u
        /\ Returned(t) /\ Returned(u)
        /\ ret[t] = "RateLimiterError: already exists"
        /\ op[u].kind = "acquire"
        /\ ret[u] = "False"
        /\ regLock = Free

\* C19: a BinanceExchange request reaches self.exchange only after its own
\* acquire('binance') returned True, and raises instead when it returned
\* False; so the calls issued to the exchange never outnumber the tokens the
\* 'binance' bucket has granted.
C19_GatedRequests ==
    /\ exchange.requests <= hist[ExchangeName].succ
    /\ \A t \in Clients :
          /\ exchange.task[t] = "sent" => ret[t] = "True" /\ op[t].name = ExchangeName
          /\ exchange.task[t] = "raised" => ret[t] = "False"

\* One request sent on the bucket's last token and another refused.
C19_Witness ==
    \E t \in Clients, u \in Clients :
        /\ exchange.task[t] = "sent"
        /\ exchange.task[u] = "raised"
        /\ exchange.requests = hist[ExchangeName].succ
        /\ hist[ExchangeName].failed > 0
        /\ buckets[ExchangeName].tokens < TokScale

\* C20: a bucket's balance rises only in a refill over a positive elapsed
\* time, by no more than elapsed * rate, and falls only in a consume that
\* returns True, by the tokens asked for; so a call that returns False leaves
\* the balance no lower than it found it, and a call with no time elapsed
\* leaves it no higher.
C20_BalanceMoves ==
    /\ [](lastCall # NoCall =>
            /\ lastCall.result = "False" => lastCall.tokens1 >= lastCall.tokens0
            /\ lastCall.elapsed = 0 => lastCall.tokens1 <= lastCall.tokens0)
    /\ [][\A name \in (DOMAIN buckets) \cap (DOMAIN buckets') :
            LET b == buckets[name]
                b2 == buckets'[name]
            IN  /\ b2.tokens > b.tokens =>
                      \E t \in Threads :
                          /\ Leaves(t, "c_add")
                          /\ op[t].name = name
                          /\ now > b.last_update
                          /\ b2.tokens - b.tokens <= Quantize(now - b.last_update, b.rate)
                /\ b2.tokens < b.tokens =>
                      \E t \in Threads :
                          /\ Leaves(t, "c_sub")
                          /\ op[t].name = name
                          /\ ret'[t] = "True"
                          /\ b.tokens - b2.tokens = op[t].n * TokScale]_vars

\* A refused call that still refilled part of a token, and no time has passed
\* since: a second call now would find nothing to add.
C20_Witness ==
    /\ lastCall # NoCall
    /\ lastCall.result = "False"
    /\ lastCall.tokens1 > lastCall.tokens0
    /\ lastCall.tokens1 < lastCall.capacity
    /\ hist[lastCall.name].succ > 0

\* C21: every consume call that gets past its argument check sets last_update
\* to the time it read, whether it then returns True or False; so a call
\* measures its elapsed time from the call before it, failed or not.
C21_LastUpdate ==
    /\ \A t \in Threads :
          pc[t] \in {"c_check", "c_sub"} =>
              /\ buckets[op[t].name].last_update = loc[t].at
              /\ lastCall # NoCall => loc[t].elapsed = loc[t].at - lastCall.at
    /\ (lastCall # NoCall /\ \A t \in Threads : pc[t] \notin {"c_check", "c_sub"})
          => buckets[lastCall.name].last_update = lastCall.at

\* A refused call that saw time pass since an earlier refused call and credited
\* nothing: last_update moved to its time all the same.
C21_Witness ==
    /\ lastCall # NoCall
    /\ lastCall.result = "False"
    /\ lastCall.elapsed > 0
    /\ lastCall.refilled = lastCall.tokens0
    /\ hist[lastCall.name].afterFail
    /\ pc[lastCall.thread] = "idle"
    /\ buckets[lastCall.name].last_update = lastCall.at

\* C22: no step of an acquire call changes the registry's keys, any bucket
\* other than the one under its name, or that bucket's rate and capacity; a
\* key appears only in an add_limiter of that name and disappears only in a
\* remove_limiter of that name.
C22_AcquireFrame ==
    [][/\ \A t \in Clients :
            ( \/ op[t].kind = "acquire" /\ pc[t] # "idle" /\ pc'[t] # pc[t]
              \/ pc[t] = "idle" /\ pc'[t] = "a_lock" )
                => /\ DOMAIN buckets' = DOMAIN buckets
                   /\ \A k \in DOMAIN buckets :
                         /\ k # op'[t].name => buckets'[k] = buckets[k]
                         /\ buckets'[k].rate = buckets[k].rate
                         /\ buckets'[k].capacity = buckets[k].capacity
       /\ \A name \in (DOMAIN buckets') \ (DOMAIN buckets) :
            \E t \in Clients : Leaves(t, "add_body") /\ op[t].name = name
       /\ \A name \in (DOMAIN buckets) \ (DOMAIN buckets') :
            \E t \in Clients : Leaves(t, "rm_body") /\ op[t].name = name]_vars

\* An acquire that drew on its bucket while another name's bucket, registered
\* at another time, is still full.
C22_Witness ==
    \E t \in Clients, k \in DOMAIN buckets :
        /\ Returned(t)
        /\ op[t].kind = "acquire"
        /\ ret[t] = "True"
        /\ op[t].name \in DOMAIN buckets
        /\ k # op[t].name
        /\ buckets[k].tokens = buckets[k].capacity
        /\ buckets[k].last_update # buckets[op[t].name].last_update
        /\ buckets[op[t].name].tokens < buckets[op[t].name].capacity

\* The threads whose add_limiter returned, and those it returned None to.
Added == {t \in Threads : Returned(t) /\ op[t].kind = "add_limiter"}
Winners == {t \in Added : ret[t] = "None"}

\* C23: of several threads that call add_limiter with the same unregistered
\* name at once, one at a time is inside the locked section; exactly one call
\* succeeds, every other raises the duplicate error, and the registry holds one
\* bucket for the name, built from the winner's config.
C23_OneWinner ==
    /\ Cardinality({t \in Threads : pc[t] = "add_body"}) <= 1
    /\ \A t \in Threads : pc[t] = "add_body" => regLock = t
    /\ \A t \in Added : ret[t] \in {"None", "RateLimiterError: already exists"}
    /\ Added # {} =>
          /\ Cardinality(Winners) = 1
          /\ DOMAIN buckets = {"a"}
          /\ \A t \in Winners :
                /\ buckets["a"].rate = op[t].rate
                /\ buckets["a"].capacity = op[t].capacity * TokScale

\* Every thread is back: one won, and a loser had passed another config.
C23_Witness ==
    /\ Added = Threads
    /\ \E t \in Winners, u \in Added \ Winners :
          /\ ret[u] = "RateLimiterError: already exists"
          /\ op[u].rate # op[t].rate
          /\ buckets["a"].rate = op[t].rate

\* C24: a request for more tokens than the bucket's capacity is never granted,
\* however much time has passed, and is answered False, not with an error.
C24_OverCapacity ==
    /\ lastCall # NoCall /\ lastCall.n * TokScale > lastCall.capacity
          => lastCall.result = "False"
    /\ \A t \in Threads :
          (op[t] # NoOp /\ op[t].n * TokScale > buckets[op[t].name].capacity)
              => /\ pc[t] # "c_sub"
                 /\ ret[t] \in {"none", "False"}
                 /\ Returned(t) => ret[t] = "False"

\* Two tokens asked of a bucket of capacity one that had ten seconds to refill
\* and is full: refused.
C24_Witness ==
    /\ lastCall # NoCall
    /\ lastCall.n * TokScale > lastCall.capacity
    /\ lastCall.result = "False"
    /\ lastCall.elapsed >= 10 * TickScale
    /\ lastCall.refilled = lastCall.capacity
    /\ lastCall.tokens0 < lastCall.capacity

\* The micro-tokens credited for `elapsed` ticks at `rate`, when c is the floor
\* of elapsed * rate / Quantum: stated without forming the product.
IsFloor(c, elapsed, rate) ==
    LET k == c - (elapsed \div Quantum) * rate
        p == (elapsed % Quantum) * rate
    IN  k * Quantum <= p /\ p < (k + 1) * Quantum

\* C25: the refill a consume call credits is elapsed * rate cut down (never
\* rounded up) to whole micro-tokens, unless the cap cuts it further; the
\* balance the call leaves is that refilled balance, less exactly the tokens
\* asked for when it returns True: a whole number of micro-tokens throughout.
C25_RoundDown ==
    lastCall # NoCall =>
        /\ lastCall.refilled < lastCall.capacity
              => IsFloor(lastCall.refilled - lastCall.tokens0, lastCall.elapsed, lastCall.rate)
        /\ lastCall.refilled = lastCall.capacity
              => AtLeast(lastCall.elapsed, lastCall.rate,
                         lastCall.capacity - lastCall.tokens0)
        /\ lastCall.result = "True"
              => lastCall.tokens1 = lastCall.refilled - lastCall.n * TokScale
        /\ lastCall.result = "False" => lastCall.tokens1 = lastCall.refilled

\* A refill below the cap in which elapsed * rate had a fraction of a
\* micro-token to cut off.
C25_Witness ==
    /\ lastCall # NoCall
    /\ lastCall.refilled < lastCall.capacity
    /\ lastCall.refilled > lastCall.tokens0
    /\ ((lastCall.elapsed % Quantum) * lastCall.rate) % Quantum # 0

\* C26: rate_limit accepts a call exactly when fewer than max_requests of the
\* calls accepted earlier for its key are less than window_seconds old; an
\* accepted call is recorded, a refused one is not.
C26_SlidingWindow ==
    LET l == middleware.last IN
    l # NoRateLimit =>
        /\ l.result = "None" <=> l.recent < l.max_requests
        /\ l.recorded <=> l.result = "None"

\* C27: whenever the balance is below one token, the caller that keeps
\* retrying consume(1) while time keeps advancing is granted at some retry.
C27_EventualAdmission ==
    (buckets["a"].tokens < TokScale) ~> (now = 0 /\ ret[1] = "True")

\* What one call at the present time would have left, had none of the refused
\* calls of the current series been made.
SingleCall ==
    Refilled([buckets["a"] EXCEPT !.tokens = series.base, !.last_update = series.since],
             now)

\* C28: after k refused calls spread over an interval, the balance is not above
\* the balance one call at the end of the interval would have left, and is short
\* of it by less than k millionths of a token, as long as that balance is below
\* the capacity.
C28_PolledRefill ==
    (series.begun /\ series.k > 0 /\ SingleCall < buckets["a"].capacity) =>
        /\ buckets["a"].tokens <= SingleCall
        /\ SingleCall - buckets["a"].tokens < series.k

\* Three refused calls have lost two millionths of a token between them.
C28_Witness ==
    /\ series.begun
    /\ series.k = 3
    /\ SingleCall < buckets["a"].capacity
    /\ SingleCall - buckets["a"].tokens = 2

\* C29: a consume call that reads a time earlier than last_update does not
\* lower the balance through its refill, and the balance stays at or above zero.
C29_ClockRegression ==
    /\ \A n \in DOMAIN buckets : buckets[n].tokens >= 0
    /\ (lastCall # NoCall /\ lastCall.elapsed < 0) =>
          lastCall.refilled >= lastCall.tokens0

\* The steps of an acquire call between its lookup and its return.
InAcquire(t) ==
    /\ op[t].kind = "acquire"
    /\ pc[t] \in {"c_lock", "c_add", "c_check", "c_sub", "a_ret"}

\* C30: an acquire racing with a remove_limiter of the same name either finds
\* the bucket, and then consumes from it and returns a boolean while the name
\* is still registered and no removal is in its locked section, or raises the
\* unknown-limiter error; it returns nothing else.
C30_AcquireVsRemove ==
    /\ \A t \in Clients :
          InAcquire(t) =>
              /\ regLock = t
              /\ op[t].name \in DOMAIN buckets
              /\ \A u \in Clients \ {t} : pc[u] # "rm_body"
    /\ \A t \in Clients :
          (Returned(t) /\ op[t].kind = "acquire" /\ op[t].n > 0) =>
              ret[t] \in {"True", "False", "RateLimiterError: does not exist"}

\* An acquire about to subtract its tokens while a remove_limiter of the same
\* name waits for the registry lock.
C30_Witness ==
    \E t \in Clients, u \in Clients :
        /\ InAcquire(t)
        /\ pc[t] = "c_sub"
        /\ op[u].kind = "remove_limiter"
        /\ op[u].name = op[t].name
        /\ pc[u] = "rm_lock"

====
